---- MODULE Spec2Model ----
(***************************************************************************)
(* ECDSAVerifier (src/src/lib.rs): verification of an ECDSA signature over *)
(* the SHA-256 digest of a message, under a secp256k1 public key, with the *)
(* signature and the key given as hexadecimal strings.                     *)
(*                                                                         *)
(* A Rust &str is a sequence of one-character strings, a Vec<u8> a         *)
(* sequence of numbers in 0..255.  The calls into the hex, sha2 and k256   *)
(* crates are modelled by what those crates do on the inputs below: hex    *)
(* decoding and DER parsing are computed, SHA-256 and the curve arithmetic *)
(* are tables of values computed with a reference implementation.          *)
(***************************************************************************)
EXTENDS Integers, Sequences, FiniteSets, TLC

VARIABLES pc, args, locals, result, console, ncalls

vars == << pc, args, locals, result, console, ncalls >>

\* Callers that may be inside verify_signature at the same time.
Callers == {"c1", "c2"}

\* Calls of verify_signature made in one behaviour.
MaxCalls == 2

\* lib.rs:68, the length a decoded signature must have.
SignatureLength == 64

\* lib.rs:73, the length a decoded public key must have.
PublicKeyLength == 33

(***************************************************************************)
(* Input data.                                                             *)
(***************************************************************************)

\* SHA-256("Test message")
DigestTest ==
    << 192, 113, 158, 154, 141, 93, 131, 141, 134, 29, 198, 246, 117, 200, 153, 210, 179, 9,
       163, 166, 91, 185, 254, 107, 17, 229, 175, 203, 249, 162, 192, 177 >>

\* SHA-256("Other message")
DigestOther ==
    << 169, 20, 3, 142, 146, 40, 26, 231, 146, 63, 80, 167, 234, 199, 214, 86, 149, 50, 26, 6,
       20, 178, 25, 155, 122, 97, 32, 224, 153, 31, 254, 214 >>

\* SHA-256(SHA-256("Test message"))
DigestTestTwice ==
    << 199, 159, 207, 154, 252, 210, 157, 237, 246, 209, 173, 225, 89, 98, 52, 184, 105, 49,
       88, 48, 1, 166, 28, 161, 64, 177, 82, 169, 105, 19, 101, 9 >>

\* SHA-256(SHA-256("Other message"))
DigestOtherTwice ==
    << 46, 250, 159, 194, 235, 145, 58, 224, 127, 151, 224, 85, 227, 10, 37, 95, 96, 125, 185,
       226, 92, 30, 84, 216, 55, 33, 84, 11, 22, 8, 41, 16 >>

\* signer key 1, SEC1 compressed (33 bytes)
Key1Sec1 ==
    << 3, 169, 143, 106, 243, 183, 129, 15, 22, 175, 219, 39, 127, 120, 23, 70, 50, 95, 134,
       128, 76, 203, 183, 119, 53, 21, 217, 169, 111, 198, 77, 180, 90 >>

\* signer key 1, SEC1 uncompressed (65 bytes)
Key1Uncompressed ==
    << 4, 169, 143, 106, 243, 183, 129, 15, 22, 175, 219, 39, 127, 120, 23, 70, 50, 95, 134,
       128, 76, 203, 183, 119, 53, 21, 217, 169, 111, 198, 77, 180, 90, 90, 201, 5, 242, 170,
       167, 60, 34, 61, 122, 20, 130, 74, 209, 163, 12, 22, 74, 185, 26, 24, 56, 248, 228, 205,
       97, 220, 87, 53, 108, 239, 239 >>

\* signer key 2, SEC1 compressed (33 bytes)
Key2Sec1 ==
    << 3, 206, 239, 161, 90, 84, 17, 96, 90, 156, 27, 94, 178, 173, 7, 103, 34, 27, 182, 242,
       109, 176, 88, 94, 15, 207, 152, 182, 38, 193, 207, 162, 101 >>

\* signer key 2, SEC1 uncompressed (65 bytes)
Key2Uncompressed ==
    << 4, 206, 239, 161, 90, 84, 17, 96, 90, 156, 27, 94, 178, 173, 7, 103, 34, 27, 182, 242,
       109, 176, 88, 94, 15, 207, 152, 182, 38, 193, 207, 162, 101, 212, 24, 166, 10, 46, 184,
       57, 115, 46, 9, 23, 128, 85, 121, 28, 19, 148, 49, 173, 215, 141, 99, 162, 210, 173,
       247, 202, 149, 225, 9, 83, 235 >>

\* 33 bytes, prefix 0x02, x-coordinate of no curve point
OffCurveSec1 ==
    << 2, 169, 143, 106, 243, 183, 129, 15, 22, 175, 219, 39, 127, 120, 23, 70, 50, 95, 134,
       128, 76, 203, 183, 119, 53, 21, 217, 169, 111, 198, 77, 180, 94 >>

\* key 1 over "Test message", DER, 71 bytes (30 45 02 21 00 eb f.. 02 20 ..)
SigDer71 ==
    << 48, 69, 2, 33, 0, 235, 254, 177, 104, 102, 189, 106, 112, 158, 67, 68, 136, 19, 99, 124,
       66, 23, 95, 168, 58, 113, 31, 180, 44, 80, 145, 95, 78, 123, 72, 194, 163, 2, 32, 59,
       128, 174, 55, 8, 128, 218, 98, 213, 225, 118, 69, 144, 155, 216, 53, 104, 43, 246, 153,
       190, 202, 224, 168, 71, 55, 102, 15, 52, 230, 143, 208 >>

\* the same signature as fixed-width r || s, 64 bytes
SigRaw64 ==
    << 235, 254, 177, 104, 102, 189, 106, 112, 158, 67, 68, 136, 19, 99, 124, 66, 23, 95, 168,
       58, 113, 31, 180, 44, 80, 145, 95, 78, 123, 72, 194, 163, 59, 128, 174, 55, 8, 128, 218,
       98, 213, 225, 118, 69, 144, 155, 216, 53, 104, 43, 246, 153, 190, 202, 224, 168, 71, 55,
       102, 15, 52, 230, 143, 208 >>

\* key 1 over "Test message", DER, 64 bytes (r of 32 bytes, s of 26 bytes)
SigDer64 ==
    << 48, 62, 2, 32, 119, 84, 99, 4, 221, 102, 138, 12, 154, 31, 56, 71, 78, 40, 149, 224,
       248, 251, 40, 235, 67, 183, 75, 115, 106, 232, 131, 134, 174, 178, 252, 90, 2, 26, 67,
       209, 100, 155, 134, 161, 180, 216, 126, 105, 237, 210, 253, 177, 91, 79, 246, 181, 112,
       254, 40, 8, 58, 215, 98, 41 >>

\* key 2 over the 32 bytes of SHA-256("Test message"), hashed again; DER, 64 bytes
SigTwice64 ==
    << 48, 62, 2, 32, 35, 192, 170, 209, 177, 88, 245, 17, 111, 149, 189, 117, 67, 246, 74, 9,
       48, 58, 67, 107, 143, 211, 245, 229, 253, 227, 150, 20, 132, 186, 200, 123, 2, 26, 66,
       8, 5, 52, 117, 125, 49, 86, 40, 178, 211, 121, 222, 107, 42, 176, 60, 78, 254, 179, 21,
       196, 207, 250, 50, 146 >>

\* the order n of secp256k1, big-endian
CurveOrder ==
    << 255, 255, 255, 255, 255, 255, 255, 255, 255, 255, 255, 255, 255, 255, 255, 254, 186,
       174, 220, 230, 175, 72, 160, 59, 191, 210, 94, 140, 208, 54, 65, 65 >>

MessageTest == << "T", "e", "s", "t", " ", "m", "e", "s", "s", "a", "g", "e" >>

MessageOther == << "O", "t", "h", "e", "r", " ", "m", "e", "s", "s", "a", "g", "e" >>

Messages == {MessageTest, MessageOther}

HexDigits ==
    << "0", "1", "2", "3", "4", "5", "6", "7", "8", "9", "a", "b", "c", "d", "e", "f" >>

\* The hexadecimal text of a byte sequence, as a signer hands it over.
HexEncode(bytes) ==
    [i \in 1..(2 * Len(bytes)) |->
        IF i % 2 = 1 THEN HexDigits[(bytes[(i + 1) \div 2] \div 16) + 1]
                     ELSE HexDigits[(bytes[i \div 2] % 16) + 1]]

\* The literals of the unit tests.
MockSignature ==
    << "3", "0", "4", "5", "0", "2", "2", "1", "0", "0", "e", "b", "f", ".", ".", "." >>

InvalidSig == << "i", "n", "v", "a", "l", "i", "d", "_", "s", "i", "g" >>

MockPublicKey == << "0", "3", "a", "0", ".", ".", "." >>

InvalidPubkey ==
    << "i", "n", "v", "a", "l", "i", "d", "_", "p", "u", "b", "k", "e", "y" >>

\* Signatures produced by a reference signer, with the encoding used.
GenuineTriples ==
    { [message |-> MessageTest, signature |-> HexEncode(SigDer71),
       public_key |-> HexEncode(Key1Sec1), encoding |-> "der"],
      [message |-> MessageTest, signature |-> HexEncode(SigRaw64),
       public_key |-> HexEncode(Key1Sec1), encoding |-> "fixed"],
      [message |-> MessageTest, signature |-> HexEncode(SigDer64),
       public_key |-> HexEncode(Key1Sec1), encoding |-> "der"] }

SignatureInputs ==
    { MockSignature, InvalidSig, HexEncode(SigDer71), HexEncode(SigRaw64),
      HexEncode(SigDer64), HexEncode(SigTwice64) }

PublicKeyInputs ==
    { MockPublicKey, InvalidPubkey, HexEncode(Key1Uncompressed),
      HexEncode(OffCurveSec1), HexEncode(Key1Sec1), HexEncode(Key2Sec1) }

(***************************************************************************)
(* ECDSAError and its Display strings.                                     *)
(***************************************************************************)

ECDSAError ==
    { "InvalidSignatureFormat", "InvalidSignatureLength",
      "InvalidSignatureRecovery", "InvalidPublicKey" }

Display(kind) ==
    CASE kind = "InvalidSignatureFormat" -> "Invalid signature format"
      [] kind = "InvalidSignatureLength" -> "Invalid signature length"
      [] kind = "InvalidSignatureRecovery" -> "Failed to recover public key"
      [] kind = "InvalidPublicKey" -> "Invalid public key"

(***************************************************************************)
(* The crates verify_signature calls.                                      *)
(***************************************************************************)

\* hex: the value of one hexadecimal digit, -1 for any other character.
HexVal(ch) ==
    CASE ch = "0" -> 0 [] ch = "1" -> 1 [] ch = "2" -> 2 [] ch = "3" -> 3
      [] ch = "4" -> 4 [] ch = "5" -> 5 [] ch = "6" -> 6 [] ch = "7" -> 7
      [] ch = "8" -> 8 [] ch = "9" -> 9
      [] ch \in {"a", "A"} -> 10 [] ch \in {"b", "B"} -> 11
      [] ch \in {"c", "C"} -> 12 [] ch \in {"d", "D"} -> 13
      [] ch \in {"e", "E"} -> 14 [] ch \in {"f", "F"} -> 15
      [] OTHER -> -1

\* hex::decode: Err on an odd length or a character that is no digit.
hex_decode(str) ==
    IF Len(str) % 2 # 0
    THEN [ok |-> FALSE, bytes |-> << >>]
    ELSE IF \E i \in 1..Len(str) : HexVal(str[i]) < 0
    THEN [ok |-> FALSE, bytes |-> << >>]
    ELSE [ok |-> TRUE,
          bytes |-> [i \in 1..(Len(str) \div 2) |->
                        16 * HexVal(str[2 * i - 1]) + HexVal(str[2 * i])]]

\* str::as_bytes on the characters the messages use.
Utf8(ch) ==
    CASE ch = " " -> 32 [] ch = "O" -> 79 [] ch = "T" -> 84 [] ch = "a" -> 97
      [] ch = "e" -> 101 [] ch = "g" -> 103 [] ch = "h" -> 104 [] ch = "m" -> 109
      [] ch = "r" -> 114 [] ch = "s" -> 115 [] ch = "t" -> 116

as_bytes(str) == [i \in 1..Len(str) |-> Utf8(str[i])]

\* sha2: SHA-256 of the byte sequences that are hashed here.
Sha256(bytes) ==
    CASE bytes = as_bytes(MessageTest) -> DigestTest
      [] bytes = as_bytes(MessageOther) -> DigestOther
      [] bytes = DigestTest -> DigestTestTwice
      [] bytes = DigestOther -> DigestOtherTwice

\* A DER INTEGER body that is a canonical non-negative number.
DerUintOk(body) ==
    /\ Len(body) >= 1
    /\ body[1] < 128
    /\ (Len(body) >= 2 /\ body[1] = 0) => body[2] >= 128

StripZero(body) ==
    IF Len(body) >= 2 /\ body[1] = 0 THEN Tail(body) ELSE body

\* A big-endian number of at most 32 bytes, widened to 32 bytes.
Pad32(body) ==
    [i \in 1..32 |-> IF i <= 32 - Len(body) THEN 0 ELSE body[i - (32 - Len(body))]]

\* a < b for two sequences of 32 bytes read as big-endian numbers.
Less32(a, b) ==
    \E i \in 1..32 : a[i] < b[i] /\ \A j \in 1..(i - 1) : a[j] = b[j]

Zero32 == [i \in 1..32 |-> 0]

\* A scalar of the curve that may stand in a signature: 0 < v < n.
ScalarOk(body) ==
    /\ Len(body) <= 32
    /\ Pad32(body) # Zero32
    /\ Less32(Pad32(body), CurveOrder)

NoSignature == [r |-> << >>, s |-> << >>]

\* k256 Signature::from_der: SEQUENCE { INTEGER r, INTEGER s }, nothing after it.
from_der(bytes) ==
    LET n == Len(bytes)
        framed == /\ n >= 8
                  /\ bytes[1] = 48
                  /\ bytes[2] < 128
                  /\ bytes[2] = n - 2
                  /\ bytes[3] = 2
        rlen == bytes[4]
        rOk == framed /\ rlen >= 1 /\ 6 + rlen < n /\ bytes[5 + rlen] = 2
        slen == bytes[6 + rlen]
        sOk == rOk /\ slen >= 1 /\ 6 + rlen + slen = n
        rbody == SubSeq(bytes, 5, 4 + rlen)
        sbody == SubSeq(bytes, 7 + rlen, 6 + rlen + slen)
    IN  IF /\ sOk
           /\ DerUintOk(rbody) /\ DerUintOk(sbody)
           /\ ScalarOk(StripZero(rbody)) /\ ScalarOk(StripZero(sbody))
        THEN [ok |-> TRUE,
              sig |-> [r |-> Pad32(StripZero(rbody)), s |-> Pad32(StripZero(sbody))]]
        ELSE [ok |-> FALSE, sig |-> NoSignature]

\* The points of secp256k1 among the inputs, as (x, y).
CurvePoints ==
    { << SubSeq(Key1Uncompressed, 2, 33), SubSeq(Key1Uncompressed, 34, 65) >>,
      << SubSeq(Key2Uncompressed, 2, 33), SubSeq(Key2Uncompressed, 34, 65) >> }

NoPoint == [x |-> << >>, y |-> << >>]

\* k256 VerifyingKey::from_sec1_bytes: a compressed (02/03 || x) or an
\* uncompressed (04 || x || y) point of the curve.
from_sec1_bytes(bytes) ==
    LET compressed == Len(bytes) = 33 /\ bytes[1] \in {2, 3}
        uncompressed == Len(bytes) = 65 /\ bytes[1] = 4
        found == IF compressed
                 THEN { p \in CurvePoints : /\ p[1] = SubSeq(bytes, 2, 33)
                                            /\ p[2][32] % 2 = bytes[1] - 2 }
                 ELSE IF uncompressed
                 THEN { p \in CurvePoints : /\ p[1] = SubSeq(bytes, 2, 33)
                                            /\ p[2] = SubSeq(bytes, 34, 65) }
                 ELSE { }
    IN  IF found = { }
        THEN [ok |-> FALSE, key |-> NoPoint]
        ELSE LET p == CHOOSE q \in found : TRUE
             IN  [ok |-> TRUE, key |-> [x |-> p[1], y |-> p[2]]]

\* The (digest, (r, s), point) for which the ECDSA equation holds, among the inputs.
EcdsaEquation ==
    { << DigestTest, from_der(SigDer64).sig, from_sec1_bytes(Key1Sec1).key >>,
      << DigestTest, [r |-> SubSeq(SigRaw64, 1, 32), s |-> SubSeq(SigRaw64, 33, 64)],
         from_sec1_bytes(Key1Sec1).key >>,
      << DigestTestTwice, from_der(SigTwice64).sig, from_sec1_bytes(Key2Sec1).key >> }

\* k256 Verifier::verify(msg, sig): hashes msg with SHA-256, then checks the
\* equation for that digest.
ecdsa_verify(key, msg, sig) == << Sha256(msg), sig, key >> \in EcdsaEquation

\* signature::Error, as its to_string() gives it.
SignatureErrorText == "signature error"

(***************************************************************************)
(* ECDSAVerifier.                                                          *)
(***************************************************************************)

\* hash_message (lib.rs:91-95).
hash_message(message) == Sha256(as_bytes(message))

Ok(b) == [tag |-> "Ok", value |-> b, msg |-> ""]

\* Err(JsValue::from_str(text)).
Err(text) == [tag |-> "Err", value |-> FALSE, msg |-> text]

NoResult == [tag |-> "None", value |-> FALSE, msg |-> ""]

StartText == "Starting signature verification..."

CompleteText == "Verification complete."

\* The texts of the errors verify_signature returns, by the statement that fails.
ErrorText(step) ==
    CASE step = "decode_signature" -> "Invalid signature format"
      [] step = "check_signature_length" -> "Signature length is invalid"
      [] step = "decode_public_key" -> "Invalid public key format"
      [] step = "check_public_key_length" -> "Public key length is invalid"
      [] step = "parse_signature" -> "Invalid signature"
      [] step = "parse_public_key" -> "Invalid public key"
      [] step = "verify" -> SignatureErrorText

\* NextStep with the public key parsed before the signature.
NextStepKeyFirst(step) ==
    CASE step = "log_start" -> "hash_message"
      [] step = "hash_message" -> "decode_signature"
      [] step = "decode_signature" -> "check_signature_length"
      [] step = "check_signature_length" -> "decode_public_key"
      [] step = "decode_public_key" -> "check_public_key_length"
      [] step = "check_public_key_length" -> "parse_public_key"
      [] step = "parse_public_key" -> "parse_signature"
      [] step = "parse_signature" -> "verify"
      [] step = "verify" -> "log_complete"
      [] step = "log_complete" -> "return_ok"
      [] step = "return_ok" -> "done"

\* NextStep with the completion message logged before pubkey.verify(..).
NextStepLogEarly(step) ==
    CASE step = "log_start" -> "hash_message"
      [] step = "hash_message" -> "decode_signature"
      [] step = "decode_signature" -> "check_signature_length"
      [] step = "check_signature_length" -> "decode_public_key"
      [] step = "decode_public_key" -> "check_public_key_length"
      [] step = "check_public_key_length" -> "parse_signature"
      [] step = "parse_signature" -> "parse_public_key"
      [] step = "parse_public_key" -> "log_complete"
      [] step = "log_complete" -> "verify"
      [] step = "verify" -> "return_ok"
      [] step = "return_ok" -> "done"

\* The statements of verify_signature, in the order the function runs them.
NextStep(step) ==
    CASE step = "log_start" -> "hash_message"
      [] step = "hash_message" -> "decode_signature"
      [] step = "decode_signature" -> "check_signature_length"
      [] step = "check_signature_length" -> "decode_public_key"
      [] step = "decode_public_key" -> "check_public_key_length"
      [] step = "check_public_key_length" -> "parse_signature"
      [] step = "parse_signature" -> "parse_public_key"
      [] step = "parse_public_key" -> "verify"
      [] step = "verify" -> "log_complete"
      [] step = "log_complete" -> "return_ok"
      [] step = "return_ok" -> "done"

NoArgs == [id |-> 0, message |-> << >>, signature |-> << >>, public_key |-> << >>]

NoLocals ==
    [msg_hash |-> << >>, signature_bytes |-> << >>, pubkey_bytes |-> << >>,
     sig |-> NoSignature, pubkey |-> NoPoint]

\* signature_bytes kept in one buffer that every call in flight uses.
signature_bytes_shared(c) ==
    LET inFlight == { d \in Callers \ {c} : pc[d] \notin {"idle", "done"} }
    IN  IF inFlight = { }
        THEN locals[c].signature_bytes
        ELSE locals[CHOOSE d \in inFlight : TRUE].signature_bytes

\* The bindings of one call: each call has its own.
signature_bytes(c) == locals[c].signature_bytes

pubkey_bytes(c) == locals[c].pubkey_bytes

\* The value the last statement of a successful call returns.
ReturnValue == Ok(TRUE)

\* A failed verification reported as the value false.
VerifyFailureFalse == Ok(FALSE)

\* What a failed pubkey.verify(..) makes the call return.
VerifyFailure == Err(ErrorText("verify"))

Init ==
    /\ pc = [c \in Callers |-> "idle"]
    /\ args = [c \in Callers |-> NoArgs]
    /\ locals = [c \in Callers |-> NoLocals]
    /\ result = [c \in Callers |-> NoResult]
    /\ console = << >>
    /\ ncalls = 0

\* The statement at pc[c] passed: go on with the next one.
Pass(c, step, newLocals) ==
    /\ pc' = [pc EXCEPT ![c] = NextStep(step)]
    /\ locals' = [locals EXCEPT ![c] = newLocals]
    /\ UNCHANGED << args, result, console, ncalls >>

\* The statement at pc[c] returns early with `res`.
Return(c, res) ==
    /\ pc' = [pc EXCEPT ![c] = "done"]
    /\ result' = [result EXCEPT ![c] = res]
    /\ UNCHANGED << args, locals, console, ncalls >>

\* A caller enters verify_signature(message, signature, public_key).
Call(c, message, signature, public_key) ==
    /\ pc[c] = "idle"
    /\ ncalls < MaxCalls
    /\ ncalls' = ncalls + 1
    /\ args' = [args EXCEPT ![c] = [id |-> ncalls + 1, message |-> message,
                                   signature |-> signature, public_key |-> public_key]]
    /\ pc' = [pc EXCEPT ![c] = "log_start"]
    /\ UNCHANGED << locals, result, console >>

\* lib.rs:61
LogStart(c) ==
    /\ pc[c] = "log_start"
    /\ console' = Append(console, [call |-> args[c].id, text |-> StartText])
    /\ pc' = [pc EXCEPT ![c] = NextStep("log_start")]
    /\ UNCHANGED << args, locals, result, ncalls >>

\* lib.rs:64
HashMessage(c) ==
    /\ pc[c] = "hash_message"
    /\ Pass(c, "hash_message",
            [locals[c] EXCEPT !.msg_hash = hash_message(args[c].message)])

\* lib.rs:67
DecodeSignature(c) ==
    /\ pc[c] = "decode_signature"
    /\ LET d == hex_decode(args[c].signature)
       IN  IF d.ok
           THEN Pass(c, "decode_signature", [locals[c] EXCEPT !.signature_bytes = d.bytes])
           ELSE Return(c, Err(ErrorText("decode_signature")))

\* lib.rs:68-70
CheckSignatureLength(c) ==
    /\ pc[c] = "check_signature_length"
    /\ IF Len(signature_bytes(c)) # SignatureLength
       THEN Return(c, Err(ErrorText("check_signature_length")))
       ELSE Pass(c, "check_signature_length", locals[c])

\* lib.rs:72
DecodePublicKey(c) ==
    /\ pc[c] = "decode_public_key"
    /\ LET d == hex_decode(args[c].public_key)
       IN  IF d.ok
           THEN Pass(c, "decode_public_key", [locals[c] EXCEPT !.pubkey_bytes = d.bytes])
           ELSE Return(c, Err(ErrorText("decode_public_key")))

\* lib.rs:73-75
CheckPublicKeyLength(c) ==
    /\ pc[c] = "check_public_key_length"
    /\ IF Len(pubkey_bytes(c)) # PublicKeyLength
       THEN Return(c, Err(ErrorText("check_public_key_length")))
       ELSE Pass(c, "check_public_key_length", locals[c])

\* lib.rs:78
ParseSignature(c) ==
    /\ pc[c] = "parse_signature"
    /\ LET p == from_der(signature_bytes(c))
       IN  IF p.ok
           THEN Pass(c, "parse_signature", [locals[c] EXCEPT !.sig = p.sig])
           ELSE Return(c, Err(ErrorText("parse_signature")))

\* lib.rs:79
ParsePublicKey(c) ==
    /\ pc[c] = "parse_public_key"
    /\ LET p == from_sec1_bytes(pubkey_bytes(c))
       IN  IF p.ok
           THEN Pass(c, "parse_public_key", [locals[c] EXCEPT !.pubkey = p.key])
           ELSE Return(c, Err(ErrorText("parse_public_key")))

\* lib.rs:82
Verify(c) ==
    /\ pc[c] = "verify"
    /\ IF ecdsa_verify(locals[c].pubkey, locals[c].msg_hash, locals[c].sig)
       THEN Pass(c, "verify", locals[c])
       ELSE Return(c, VerifyFailure)

\* lib.rs:84
LogComplete(c) ==
    /\ pc[c] = "log_complete"
    /\ console' = Append(console, [call |-> args[c].id, text |-> CompleteText])
    /\ pc' = [pc EXCEPT ![c] = NextStep("log_complete")]
    /\ UNCHANGED << args, locals, result, ncalls >>

\* lib.rs:86
ReturnOk(c) ==
    /\ pc[c] = "return_ok"
    /\ Return(c, ReturnValue)

\* The caller has taken the result; the call's bindings are gone.
Drop(c) ==
    /\ pc[c] = "done"
    /\ pc' = [pc EXCEPT ![c] = "idle"]
    /\ args' = [args EXCEPT ![c] = NoArgs]
    /\ locals' = [locals EXCEPT ![c] = NoLocals]
    /\ result' = [result EXCEPT ![c] = NoResult]
    /\ UNCHANGED << console, ncalls >>

\* The statements of a call in flight, and the caller taking its result.
Step(c) ==
    \/ LogStart(c)
    \/ HashMessage(c)
    \/ DecodeSignature(c)
    \/ CheckSignatureLength(c)
    \/ DecodePublicKey(c)
    \/ CheckPublicKeyLength(c)
    \/ ParseSignature(c)
    \/ ParsePublicKey(c)
    \/ Verify(c)
    \/ LogComplete(c)
    \/ ReturnOk(c)
    \/ Drop(c)

\* Calls made one after the other, as on the single thread of a wasm host,
\* with every combination of the inputs.
CallAlone(c, message, signature, public_key) ==
    /\ \A d \in Callers : pc[d] = "idle"
    /\ Call(c, message, signature, public_key)

Next ==
    \E c \in Callers :
        \/ \E m \in Messages, s \in SignatureInputs, k \in PublicKeyInputs :
               CallAlone(c, m, s, k)
        \/ Step(c)

Spec == Init /\ [][Next]_vars

\* One input for each way a call can end.
ConcurrentInputs ==
    { << MessageTest, MockSignature, MockPublicKey >>,
      << MessageTest, HexEncode(SigDer71), HexEncode(Key1Sec1) >>,
      << MessageTest, HexEncode(SigDer64), InvalidPubkey >>,
      << MessageTest, HexEncode(SigDer64), HexEncode(Key1Uncompressed) >>,
      << MessageTest, HexEncode(SigRaw64), HexEncode(Key1Sec1) >>,
      << MessageTest, HexEncode(SigTwice64), HexEncode(OffCurveSec1) >>,
      << MessageOther, HexEncode(SigTwice64), HexEncode(Key2Sec1) >>,
      << MessageTest, HexEncode(SigTwice64), HexEncode(Key2Sec1) >> }

\* Calls from several callers, their statements interleaved in any order.
NextConcurrent ==
    \E c \in Callers :
        \/ \E t \in ConcurrentInputs : Call(c, t[1], t[2], t[3])
        \/ Step(c)

SpecConcurrent == Init /\ [][NextConcurrent]_vars

(***************************************************************************)
(* Properties.                                                             *)
(***************************************************************************)

Done(c) == pc[c] = "done"

\* The first of the seven checks, in the order the claims give, that the
\* arguments `a` fail; "none" when they pass them all.
FirstFailingCheck(a) ==
    LET sd == hex_decode(a.signature)
        kd == hex_decode(a.public_key)
    IN  IF ~sd.ok THEN "decode_signature"
        ELSE IF Len(sd.bytes) # 64 THEN "check_signature_length"
        ELSE IF ~kd.ok THEN "decode_public_key"
        ELSE IF Len(kd.bytes) # 33 THEN "check_public_key_length"
        ELSE IF ~from_der(sd.bytes).ok THEN "parse_signature"
        ELSE IF ~from_sec1_bytes(kd.bytes).ok THEN "parse_public_key"
        ELSE IF ~ecdsa_verify(from_sec1_bytes(kd.bytes).key, hash_message(a.message),
                              from_der(sd.bytes).sig)
        THEN "verify"
        ELSE "none"

\* The call of caller c was made with a triple of a reference signer.
Genuine(c) ==
    \E g \in GenuineTriples :
        /\ args[c].message = g.message
        /\ args[c].signature = g.signature
        /\ args[c].public_key = g.public_key

\* The result is an error of the given kind, carrying the kind's Display string.
IsError(res, kind) == res.tag = "Err" /\ res.msg = Display(kind)

\* The console messages of the call with the given id, in the order logged.
LogOf(id) == SelectSeq(console, LAMBDA e : e.call = id)

\* C1: a call with a genuine (message, signature, public key) triple of a
\* reference signer, passed as hex strings, returns Ok(true).
C1_GenuineAccepted ==
    \A c \in Callers : (Done(c) /\ Genuine(c)) => result[c] = Ok(TRUE)

\* C2: the checks run in the order signature hex, signature length, key hex,
\* key length, signature parse, key parse, verification, and a failing call
\* returns the error of the first check in that order that its arguments fail.
C2_FirstFailureWins ==
    \A c \in Callers :
        (Done(c) /\ FirstFailingCheck(args[c]) # "none")
            => result[c] = Err(ErrorText(FirstFailingCheck(args[c])))

\* A 64-byte signature that is no DER, with a public key of the wrong length:
\* the call has reported the public key.
C2_Witness ==
    \E c \in Callers :
        /\ Done(c)
        /\ args[c].signature = HexEncode(SigRaw64)
        /\ args[c].public_key = HexEncode(Key1Uncompressed)
        /\ result[c] = Err("Public key length is invalid")

\* C3: a signature that is valid hex but does not decode to 64 bytes makes the
\* call fail with the kind InvalidSignatureLength.
C3_WrongLengthKind ==
    \A c \in Callers :
        (/\ Done(c)
         /\ hex_decode(args[c].signature).ok
         /\ Len(hex_decode(args[c].signature).bytes) # 64)
            => IsError(result[c], "InvalidSignatureLength")

\* C4: malformed signature hex gives an error of kind InvalidSignatureFormat;
\* malformed public-key hex, after a signature of 64 bytes, gives an error of
\* kind InvalidPublicKey.
C4_MalformedHexKinds ==
    \A c \in Callers :
        Done(c) =>
            /\ ~hex_decode(args[c].signature).ok
                  => IsError(result[c], "InvalidSignatureFormat")
            /\ FirstFailingCheck(args[c]) = "decode_public_key"
                  => IsError(result[c], "InvalidPublicKey")

\* C5: a public key that is valid hex but does not decode to 33 bytes, after a
\* signature of 64 bytes, makes the call fail with the kind InvalidPublicKey.
C5_WrongKeyLengthKind ==
    \A c \in Callers :
        (Done(c) /\ FirstFailingCheck(args[c]) = "check_public_key_length")
            => IsError(result[c], "InvalidPublicKey")

\* C6: a signature and a key that pass every decoding, length and parsing
\* check, with the verification equation not holding, make the call fail
\* with the kind InvalidSignatureRecovery.
C6_MismatchKind ==
    \A c \in Callers :
        (Done(c) /\ FirstFailingCheck(args[c]) = "verify")
            => IsError(result[c], "InvalidSignatureRecovery")

\* C7: a call ends with Ok(true), and then its arguments passed all seven
\* checks, or with an error; it never ends with Ok(false).
C7_TrueOrError ==
    \A c \in Callers :
        Done(c) =>
            /\ result[c].tag \in {"Ok", "Err"}
            /\ result[c].tag = "Ok"
                  => (result[c] = Ok(TRUE) /\ FirstFailingCheck(args[c]) = "none")
            /\ result[c] # Ok(FALSE)

\* A call has returned Ok(true).
C7_Witness == \E c \in Callers : Done(c) /\ result[c] = Ok(TRUE)

\* C8: every error a call returns carries the Display string of one of the
\* four kinds of ECDSAError.
C8_ErrorsAreDisplayed ==
    \A c \in Callers :
        (Done(c) /\ result[c].tag = "Err")
            => \E kind \in ECDSAError : result[c].msg = Display(kind)

C10_Logging ==
    \A c \in Callers :
        LET log == LogOf(args[c].id)
            start == [call |-> args[c].id, text |-> StartText]
            complete == [call |-> args[c].id, text |-> CompleteText]
        IN  /\ pc[c] = "log_start"
               => (log = << >> /\ locals[c] = NoLocals /\ result[c] = NoResult)
            /\ pc[c] \in {"hash_message", "decode_signature", "check_signature_length",
                          "decode_public_key", "check_public_key_length",
                          "parse_signature", "parse_public_key", "verify", "log_complete"}
               => log = << start >>
            /\ pc[c] = "return_ok"
               => (/\ log = << start, complete >>
                   /\ ecdsa_verify(locals[c].pubkey, locals[c].msg_hash, locals[c].sig))
            /\ Done(c)
               => /\ result[c] = Ok(TRUE) <=> log = << start, complete >>
                  /\ result[c].tag = "Err" <=> log = << start >>

\* A call has logged both messages and returned Ok(true); the call before it
\* returned an error and logged the start message only.
C10_Witness ==
    \E c \in Callers :
        /\ Done(c)
        /\ result[c] = Ok(TRUE)
        /\ args[c].id = 2
        /\ console = << [call |-> 1, text |-> StartText],
                        [call |-> 2, text |-> StartText],
                        [call |-> 2, text |-> CompleteText] >>

====
